---- MODULE Spec2Model ----
(***************************************************************************)
(* Iterative depth first search (source/graphs/python/depth_first_search.py)*)
(*                                                                         *)
(* DepthFirstSearch(graph, s) allocates a per-vertex state list, pushes s  *)
(* on a stack and runs the loop of _dfs inside the constructor.  The model *)
(* keeps one record of fields per engine instance, steps each engine at    *)
(* statement granularity (constructor, while test + pop, mark + start of   *)
(* the for loop, one neighbour of the for loop, loop exit) and models the  *)
(* test client main.  ds.graph.Graph and ds.stack.Stack are imported by    *)
(* the file but are not part of it; they are modelled from their stated    *)
(* contract (vertex count + adjacency enumeration, LIFO container).        *)
(***************************************************************************)
EXTENDS Integers, Sequences, FiniteSets, TLC

\* ---- Bounds of the checked instances -----------------------------------
MaxV == 3          \* most vertices of an exhaustively enumerated graph
MaxE == 3          \* most adjacency entries of an exhaustively enumerated graph
ConcMaxV == 2      \* the same two bounds for the two-engine specification
ConcMaxE == 2

\* ---- DepthFirstSearch constants ----------------------------------------
\* self.NEW (NEW is a reserved word of TLA+)
NEW_ == 0
VISITED == 1

VARIABLES
    graph,      \* the Graph object: [V |-> vertex count, adj |-> adjacency lists]
    pc,         \* pc[e]: position of engine e's constructor
    err,        \* err[e]: the exception that ended engine e's constructor
    source,     \* source[e]: the argument s of the constructor
    state,      \* state[e]: self._state, a list indexed 0 .. V-1
    S,          \* S[e]: the local Stack of _dfs, top at the end
    v,          \* v[e]: the local v of _dfs (last popped vertex)
    todo,       \* todo[e]: neighbours of v the for loop has still to visit
    pops,       \* pops[e]: number of S.pop() calls executed so far
    pushes,     \* pushes[e]: number of S.push() calls executed so far
    popped,     \* popped[e]: the values S.pop() has returned so far, in order
    query,      \* the last is_visited call and its outcome
    mpc,        \* position of main: "api" (not running), "loop", "done"
    mv,         \* the loop variable v of main
    out         \* out[x]: the list main printed for source x

vars == <<graph, pc, err, source, state, S, v, todo, pops, pushes, popped, query,
          mpc, mv, out>>
engineVars == <<pc, err, source, state, S, v, todo, pops, pushes, popped>>
mainVars == <<mpc, mv, out>>

\* ---- ds.graph.Graph (contract only) ------------------------------------
Vertices(g) == 0 .. (g.V - 1)

\* The adjacency list of x built from a list of directed edges, in order.
RECURSIVE Targets(_, _)
Targets(es, x) ==
    IF es = <<>> THEN <<>>
    ELSE IF Head(es)[1] = x THEN <<Head(es)[2]>> \o Targets(Tail(es), x)
         ELSE Targets(Tail(es), x)

MkGraph(n, es) == [V |-> n, adj |-> [x \in 0 .. (n - 1) |-> Targets(es, x)]]

EdgeLists(n, m) ==
    UNION {[1 .. k -> (0 .. (n - 1)) \X (0 .. (n - 1))] : k \in 0 .. m}

\* Every graph of 1..n vertices with at most m adjacency entries.
GraphsUpTo(n, m) ==
    UNION {{MkGraph(k, es) : es \in EdgeLists(k, m)} : k \in 1 .. n}

\* An undirected graph from a list of edges: each edge is entered both ways.
RECURSIVE BothWays(_)
BothWays(es) ==
    IF es = <<>> THEN <<>>
    ELSE <<Head(es), <<Head(es)[2], Head(es)[1]>>>> \o BothWays(Tail(es))

\* Vertices {0..4}, undirected edges (0,1), (1,2), (3,4).
TwoComponents == MkGraph(5, BothWays(<<<<0, 1>>, <<1, 2>>, <<3, 4>>>>))
\* The undirected triangle on {0,1,2}.
Triangle == MkGraph(3, BothWays(<<<<0, 1>>, <<0, 2>>, <<1, 2>>>>))
\* A single vertex with no edges.
OneVertex == MkGraph(1, <<>>)

ScenarioGraphs == {TwoComponents, Triangle, OneVertex}

\* graph.adj(x): the adjacency list of a valid vertex.  For an index outside
\* [0, V) the contract says nothing: the call either raises or, for a
\* negative index over a Python list, wraps around.
GraphAdj(g, x) ==
    IF x \in Vertices(g) THEN {[raised |-> FALSE, list |-> g.adj[x]]}
    ELSE IF x < 0 /\ x >= 0 - g.V
         THEN {[raised |-> TRUE, list |-> <<>>],
               [raised |-> FALSE, list |-> g.adj[g.V + x]]}
         ELSE {[raised |-> TRUE, list |-> <<>>]}

\* ---- ds.stack.Stack (contract only) ------------------------------------
EmptyStack == <<>>
push(stk, x) == Append(stk, x)
is_empty(stk) == Len(stk) = 0
top(stk) == stk[Len(stk)]
pop(stk) == SubSeq(stk, 1, Len(stk) - 1)

\* ---- Python list indexing ----------------------------------------------
\* lst[i] on a list of length n: i in [-n, n) is accepted, negative i counts
\* from the end; anything else raises IndexError.
InRange(n, i) == i >= 0 - n /\ i < n
PyIndex(n, i) == IF i < 0 THEN n + i ELSE i

ListLen(st) == Cardinality(DOMAIN st)

\* ---- DepthFirstSearch: statements of __init__, _dfs and is_visited ------
\* Variant: the list is filled with the other constant.
InitState_Visited(g) == [x \in Vertices(g) |-> VISITED]

\* self._state = [self.NEW for _ in graph.vertices()]
InitState(g) == [x \in Vertices(g) |-> NEW_]

\* Variant: the source is never pushed.
InitStack_NoPush(s) == EmptyStack

\* S = Stack(); S.push(s)
InitStack(s) == push(EmptyStack, s)

\* Variant: the loop is entered whatever the stack holds.
LoopCond_Always(stk) == TRUE

\* while not S.is_empty()
LoopCond(stk) == ~is_empty(stk)

\* Variant: the mark flips the entry instead of setting it.
MarkVisited_Toggle(st, x) ==
    [st EXCEPT ![PyIndex(ListLen(st), x)] = IF @ = VISITED THEN NEW_ ELSE VISITED]

\* self._state[x] = self.VISITED, for an index the list accepts
MarkVisited(st, x) == [st EXCEPT ![PyIndex(ListLen(st), x)] = VISITED]

\* Variants: the test compares with VISITED; the test is left out.
IsNew_Inverted(st, w) == st[PyIndex(ListLen(st), w)] = VISITED
IsNew_Always(st, w) == TRUE

\* if self._state[w] == self.NEW
IsNew(st, w) == st[PyIndex(ListLen(st), w)] = NEW_

\* for w in graph.adj(v): the position after a neighbour list has been taken
ForPc(l) == IF l = <<>> THEN "while" ELSE "for"

\* is_visited(x): does the call raise, and the value it returns when it does not
is_visited_raises(st, x) == ~InRange(ListLen(st), x)
is_visited(st, x) == st[PyIndex(ListLen(st), x)] = VISITED

NoQuery == [called |-> FALSE, eng |-> 0, arg |-> 0, raised |-> FALSE, value |-> FALSE]

\* DepthFirstSearch(graph, s) up to the first test of the while loop.
Construct(e, s) ==
    /\ pc[e] = "new"
    /\ source' = [source EXCEPT ![e] = s]
    /\ state' = [state EXCEPT ![e] = InitState(graph)]
    /\ S' = [S EXCEPT ![e] = InitStack(s)]
    /\ pushes' = [pushes EXCEPT ![e] = 1]
    /\ pops' = [pops EXCEPT ![e] = 0]
    /\ popped' = [popped EXCEPT ![e] = <<>>]
    /\ v' = [v EXCEPT ![e] = 0]
    /\ todo' = [todo EXCEPT ![e] = <<>>]
    /\ err' = [err EXCEPT ![e] = "none"]
    /\ pc' = [pc EXCEPT ![e] = "while"]
    /\ UNCHANGED <<graph, query, mainVars>>

\* Variant: the top of the stack is read but not removed.
WhilePop_Peek(e) ==
    /\ pc[e] = "while"
    /\ LoopCond(S[e])
    /\ v' = [v EXCEPT ![e] = top(S[e])]
    /\ pc' = [pc EXCEPT ![e] = "mark"]
    /\ UNCHANGED <<graph, err, source, state, S, todo, pops, popped, pushes, query, mainVars>>

\* The while test succeeds: v = S.pop().
WhilePop(e) ==
    /\ pc[e] = "while"
    /\ LoopCond(S[e])
    /\ IF is_empty(S[e])
       THEN /\ pc' = [pc EXCEPT ![e] = "error"]
            /\ err' = [err EXCEPT ![e] = "EmptyStack"]
            /\ UNCHANGED <<S, v, pops, popped>>
       ELSE /\ v' = [v EXCEPT ![e] = top(S[e])]
            /\ S' = [S EXCEPT ![e] = pop(S[e])]
            /\ pops' = [pops EXCEPT ![e] = pops[e] + 1]
            /\ popped' = [popped EXCEPT ![e] = Append(popped[e], top(S[e]))]
            /\ pc' = [pc EXCEPT ![e] = "mark"]
            /\ UNCHANGED err
    /\ UNCHANGED <<graph, source, state, todo, pushes, query, mainVars>>

\* Variant: _state is one list shared by every constructed instance.
Mark_Shared(e) ==
    /\ pc[e] = "mark"
    /\ state' = [x \in DOMAIN state |->
                   IF pc[x] = "new" THEN state[x] ELSE MarkVisited(state[x], v[e])]
    /\ todo' = [todo EXCEPT ![e] = graph.adj[v[e]]]
    /\ pc' = [pc EXCEPT ![e] = ForPc(graph.adj[v[e]])]
    /\ UNCHANGED <<graph, err, source, S, v, pops, popped, pushes, query, mainVars>>

\* self._state[v] = self.VISITED, then the for loop takes graph.adj(v).
Mark(e) ==
    /\ pc[e] = "mark"
    /\ IF ~InRange(ListLen(state[e]), v[e])
       THEN /\ pc' = [pc EXCEPT ![e] = "error"]
            /\ err' = [err EXCEPT ![e] = "IndexError"]
            /\ UNCHANGED <<state, todo>>
       ELSE \E r \in GraphAdj(graph, v[e]) :
            /\ state' = [state EXCEPT ![e] = MarkVisited(state[e], v[e])]
            /\ IF r.raised
               THEN /\ pc' = [pc EXCEPT ![e] = "error"]
                    /\ err' = [err EXCEPT ![e] = "GraphError"]
                    /\ UNCHANGED todo
               ELSE /\ todo' = [todo EXCEPT ![e] = r.list]
                    /\ pc' = [pc EXCEPT ![e] = ForPc(r.list)]
                    /\ UNCHANGED err
    /\ UNCHANGED <<graph, source, S, v, pops, popped, pushes, query, mainVars>>

\* Variant: the for loop is left after its first push.
ForStep_Break(e) ==
    /\ pc[e] = "for"
    /\ LET w == Head(todo[e]) IN
        IF IsNew(state[e], w)
        THEN /\ S' = [S EXCEPT ![e] = push(S[e], w)]
             /\ pushes' = [pushes EXCEPT ![e] = pushes[e] + 1]
             /\ todo' = [todo EXCEPT ![e] = <<>>]
             /\ pc' = [pc EXCEPT ![e] = "while"]
        ELSE /\ todo' = [todo EXCEPT ![e] = Tail(todo[e])]
             /\ pc' = [pc EXCEPT ![e] = ForPc(Tail(todo[e]))]
             /\ UNCHANGED <<S, pushes>>
    /\ UNCHANGED <<graph, err, source, state, v, pops, popped, query, mainVars>>

\* Variant: a neighbour is marked VISITED when it is pushed.
ForStep_MarkOnPush(e) ==
    /\ pc[e] = "for"
    /\ LET w == Head(todo[e]) IN
        IF IsNew(state[e], w)
        THEN /\ S' = [S EXCEPT ![e] = push(S[e], w)]
             /\ pushes' = [pushes EXCEPT ![e] = pushes[e] + 1]
             /\ state' = [state EXCEPT ![e] = MarkVisited(state[e], w)]
        ELSE UNCHANGED <<S, pushes, state>>
    /\ todo' = [todo EXCEPT ![e] = Tail(todo[e])]
    /\ pc' = [pc EXCEPT ![e] = ForPc(Tail(todo[e]))]
    /\ UNCHANGED <<graph, err, source, v, pops, popped, query, mainVars>>

\* One iteration of the for loop: if self._state[w] == self.NEW: S.push(w).
ForStep(e) ==
    /\ pc[e] = "for"
    /\ LET w == Head(todo[e]) IN
        IF IsNew(state[e], w)
        THEN /\ S' = [S EXCEPT ![e] = push(S[e], w)]
             /\ pushes' = [pushes EXCEPT ![e] = pushes[e] + 1]
        ELSE UNCHANGED <<S, pushes>>
    /\ todo' = [todo EXCEPT ![e] = Tail(todo[e])]
    /\ pc' = [pc EXCEPT ![e] = ForPc(Tail(todo[e]))]
    /\ UNCHANGED <<graph, err, source, state, v, pops, popped, query, mainVars>>

\* The while test fails: _dfs and the constructor return.
WhileExit(e) ==
    /\ pc[e] = "while"
    /\ ~LoopCond(S[e])
    /\ pc' = [pc EXCEPT ![e] = "done"]
    /\ UNCHANGED <<graph, err, source, state, S, v, todo, pops, popped, pushes, query, mainVars>>

\* Variant: the query marks the vertex it was asked about.
IsVisited_Marks(e, x) ==
    /\ pc[e] = "done"
    /\ mpc = "api"
    /\ query' = [called |-> TRUE, eng |-> e, arg |-> x,
                 raised |-> is_visited_raises(state[e], x),
                 value |-> IF is_visited_raises(state[e], x) THEN FALSE
                           ELSE is_visited(state[e], x)]
    /\ state' = [state EXCEPT ![e] =
                   IF is_visited_raises(state[e], x) THEN @ ELSE MarkVisited(@, x)]
    /\ UNCHANGED <<graph, pc, err, source, S, v, todo, pops, popped, pushes, mainVars>>

\* dfs.is_visited(x) on a constructed engine.
IsVisited(e, x) ==
    /\ pc[e] = "done"
    /\ mpc = "api"
    /\ query' = [called |-> TRUE, eng |-> e, arg |-> x,
                 raised |-> is_visited_raises(state[e], x),
                 value |-> IF is_visited_raises(state[e], x) THEN FALSE
                           ELSE is_visited(state[e], x)]
    /\ UNCHANGED <<graph, engineVars, mainVars>>

\* ---- _dfs as a function of (graph, s): the run of one engine on its own ----
\* for w in l: if self._state[w] == self.NEW: S.push(w)
RECURSIVE PushNew(_, _, _)
PushNew(l, st, stk) ==
    IF l = <<>> THEN stk
    ELSE PushNew(Tail(l), st, IF IsNew(st, Head(l)) THEN push(stk, Head(l)) ELSE stk)

\* The while loop from the state list st and stack stk to its exit.
RECURSIVE DfsLoop(_, _, _)
DfsLoop(g, st, stk) ==
    IF ~LoopCond(stk) THEN st
    ELSE LET x == top(stk)
             st2 == MarkVisited(st, x)
         IN DfsLoop(g, st2, PushNew(g.adj[x], st2, pop(stk)))

\* self._state after DepthFirstSearch(g, s), for a valid s.
RunAlone(g, s) == DfsLoop(g, InitState(g), InitStack(s))

\* ---- main: one engine per source vertex, in order -----------------------
\* [w for w in graph.vertices() if dfs.is_visited(w)]
RECURSIVE VisitedList(_, _, _)
VisitedList(st, x, n) ==
    IF x >= n THEN <<>>
    ELSE IF is_visited(st, x) THEN <<x>> \o VisitedList(st, x + 1, n)
         ELSE VisitedList(st, x + 1, n)

\* Variant: every engine is constructed with source 0.
MainConstruct_Zero ==
    /\ mpc = "loop"
    /\ mv < graph.V
    /\ Construct(1, 0)

\* dfs = DepthFirstSearch(graph, v)
MainConstruct ==
    /\ mpc = "loop"
    /\ mv < graph.V
    /\ Construct(1, mv)

\* print(...): the list of visited vertices; the loop moves to the next v.
MainPrint ==
    /\ mpc = "loop"
    /\ pc[1] = "done"
    /\ out' = [x \in DOMAIN out \cup {mv} |->
                 IF x = mv THEN VisitedList(state[1], 0, graph.V) ELSE out[x]]
    /\ mv' = mv + 1
    /\ pc' = [pc EXCEPT ![1] = "new"]
    /\ UNCHANGED <<graph, err, source, state, S, v, todo, pops, popped, pushes, query, mpc>>

\* return 0
MainReturn ==
    /\ mpc = "loop"
    /\ pc[1] = "new"
    /\ mv >= graph.V
    /\ mpc' = "done"
    /\ UNCHANGED <<graph, engineVars, query, mv, out>>

\* ---- Specifications ------------------------------------------------------
InitEngines(n) ==
    /\ pc = [e \in 1 .. n |-> "new"]
    /\ err = [e \in 1 .. n |-> "none"]
    /\ source = [e \in 1 .. n |-> 0]
    /\ state = [e \in 1 .. n |-> <<>>]
    /\ S = [e \in 1 .. n |-> EmptyStack]
    /\ v = [e \in 1 .. n |-> 0]
    /\ todo = [e \in 1 .. n |-> <<>>]
    /\ pops = [e \in 1 .. n |-> 0]
    /\ pushes = [e \in 1 .. n |-> 0]
    /\ popped = [e \in 1 .. n |-> <<>>]
    /\ query = NoQuery
    /\ mv = 0
    /\ out = <<>>

\* Arguments tried for s and for the argument of is_visited: every vertex,
\* and the two nearest indices on either side of [0, V).
IndexInputs(g) == (0 - 1) .. g.V

Engines == DOMAIN pc

\* A step of the constructor of some engine.
EnginesStep ==
    \/ \E e \in Engines : WhilePop(e)
    \/ \E e \in Engines : Mark(e)
    \/ \E e \in Engines : ForStep(e)
    \/ \E e \in Engines : WhileExit(e)

\* One engine used through its API with any source, then queried.
Init ==
    /\ graph \in GraphsUpTo(MaxV, MaxE) \cup ScenarioGraphs
    /\ InitEngines(1)
    /\ mpc = "api"

ApiConstruct ==
    \E e \in Engines : \E s \in IndexInputs(graph) : mpc = "api" /\ Construct(e, s)

ApiQuery == \E e \in Engines : \E x \in IndexInputs(graph) : IsVisited(e, x)

Next == ApiConstruct \/ EnginesStep \/ ApiQuery

Spec == Init /\ [][Next]_vars

\* The constructor runs to completion: it is one synchronous call.
FairSpec == Spec /\ WF_vars(EnginesStep)

\* Two engines on one graph, valid sources, steps interleaved in any order.
InitConc ==
    /\ graph \in GraphsUpTo(ConcMaxV, ConcMaxE) \cup ScenarioGraphs
    /\ InitEngines(2)
    /\ mpc = "api"

ConcConstruct ==
    \E e \in Engines : \E s \in Vertices(graph) : mpc = "api" /\ Construct(e, s)

NextConc == ConcConstruct \/ EnginesStep

SpecConc == InitConc /\ [][NextConc]_vars

\* The test client: for v in graph.vertices(): DepthFirstSearch(graph, v).
InitMain ==
    /\ graph \in GraphsUpTo(MaxV, MaxE) \cup ScenarioGraphs
    /\ InitEngines(1)
    /\ mpc = "loop"

NextMain == MainConstruct \/ EnginesStep \/ MainPrint \/ MainReturn

SpecMain == InitMain /\ [][NextMain]_vars

\* ---- Graph theory used to state the properties ---------------------------
Range(l) == {l[i] : i \in DOMAIN l}

\* The vertices reachable from the set R by following adjacency entries.
RECURSIVE Closure(_, _)
Closure(g, R) ==
    LET N == R \cup {w \in Vertices(g) : \E x \in R : w \in Range(g.adj[x])}
    IN IF N = R THEN R ELSE Closure(g, N)

\* The vertices reachable from s by a path of zero or more edges.
Reach(g, s) == Closure(g, {s})

EdgeCount(g) ==
    LET RECURSIVE Sum(_)
        Sum(n) == IF n = 0 THEN 0 ELSE Len(g.adj[n - 1]) + Sum(n - 1)
    IN Sum(g.V)

ValidSource(e) == pc[e] # "new" /\ source[e] \in Vertices(graph)
Constructed(e) == pc[e] = "done" /\ source[e] \in Vertices(graph)
VisitedSet(e) == {w \in Vertices(graph) : is_visited(state[e], w)}

\* ---- C1 ----------------------------------------------------------------
\* C1 (completeness): once DepthFirstSearch(G, s) has been constructed with a
\* valid source s, every vertex w reachable from s by a path of graph edges
\* has is_visited(w) = true.
C1_Completeness ==
    \A e \in Engines :
        Constructed(e) => \A w \in Reach(graph, source[e]) : is_visited(state[e], w)

\* A finished traversal that had to go two edges deep to reach a third vertex.
C1_Witness ==
    /\ Constructed(1)
    /\ Cardinality(Reach(graph, source[1])) >= 3
    /\ \E w \in Reach(graph, source[1]) : w \notin Range(graph.adj[source[1]]) \cup {source[1]}
    /\ VisitedSet(1) = Reach(graph, source[1])

\* ---- C2 ----------------------------------------------------------------
\* C2 (soundness): at every point of a traversal from a valid source s, every
\* vertex marked VISITED is reachable from s by a path of zero or more edges;
\* in particular this holds of is_visited after construction.
C2_Soundness ==
    \A e \in Engines :
        ValidSource(e) =>
            \A w \in Vertices(graph) :
                state[e][w] = VISITED => w \in Reach(graph, source[e])

\* A finished traversal that visited more than its source and left a vertex
\* unvisited although that vertex has edges of its own.
C2_Witness ==
    /\ Constructed(1)
    /\ Cardinality(VisitedSet(1)) >= 2
    /\ \E w \in Vertices(graph) : ~is_visited(state[1], w) /\ graph.adj[w] # <<>>

\* ---- C3 ----------------------------------------------------------------
\* C3: after construction with a valid source s, is_visited(s) is true, also
\* when s has no edges and when s has a self-loop.
C3_SourceVisited ==
    \A e \in Engines : Constructed(e) => is_visited(state[e], source[e])

\* A finished traversal whose source has a self-loop.
C3_Witness ==
    /\ Constructed(1)
    /\ source[1] \in Range(graph.adj[source[1]])
    /\ is_visited(state[1], source[1])

\* ---- C4 ----------------------------------------------------------------
\* C4: constructing the engine with a source outside [0, vertex_count) performs
\* no traversal: no pop is executed and no vertex leaves NEW.
C4_InvalidSourceNoTraversal ==
    \A e \in Engines :
        (pc[e] # "new" /\ source[e] \notin Vertices(graph)) =>
            /\ pops[e] = 0
            /\ \A w \in Vertices(graph) : state[e][w] = NEW_
            /\ pc[e] # "done"

\* ---- C5 ----------------------------------------------------------------
\* C5: is_visited(v) with v outside [0, vertex_count) fails instead of
\* returning a boolean.
C5_InvalidQueryRaises ==
    (query.called /\ query.arg \notin Vertices(graph)) => query.raised

\* ---- C6 ----------------------------------------------------------------
\* C6: for every graph and valid source the loop run by the constructor
\* eventually terminates, and when it has terminated the frontier is empty.
C6_Terminates ==
    /\ (pc[1] = "while" /\ source[1] \in Vertices(graph)) ~> (pc[1] = "done")
    /\ [](Constructed(1) => is_empty(S[1]))

\* A constructor that returned with an empty frontier after duplicate pops.
C6_Witness ==
    /\ Constructed(1)
    /\ is_empty(S[1])
    /\ pops[1] > graph.V

\* ---- C7 ----------------------------------------------------------------
\* C7 (pop bound): with V vertices and E adjacency entries one construction
\* from a valid source executes at most V + E pops, and at most 1 + E pushes,
\* although a vertex may be pushed and popped several times.
C7_PopBound ==
    \A e \in Engines :
        ValidSource(e) =>
            /\ pops[e] <= graph.V + EdgeCount(graph)
            /\ pops[e] <= pushes[e]
            /\ pushes[e] <= 1 + EdgeCount(graph)

\* A finished traversal in which every adjacency entry caused a push and some
\* vertex was popped twice.
C7_Witness ==
    /\ Constructed(1)
    /\ pops[1] = 1 + EdgeCount(graph)
    /\ pops[1] > Cardinality(VisitedSet(1))

\* ---- C8 ----------------------------------------------------------------
Undirected(g) ==
    \A x \in Vertices(g) : \A w \in Vertices(g) :
        (w \in Range(g.adj[x])) <=> (x \in Range(g.adj[w]))

\* C8: on an undirected graph, one engine per source vertex yields the
\* connected components: the list printed for u is the component of u, any
\* two lists are equal or disjoint as sets, and w is listed for u iff u is
\* listed for w.
C8_Components ==
    (mpc = "done" /\ Undirected(graph)) =>
        \A u \in Vertices(graph) : \A w \in Vertices(graph) :
            /\ Range(out[u]) = Reach(graph, u)
            /\ Range(out[u]) = Range(out[w]) \/ Range(out[u]) \cap Range(out[w]) = {}
            /\ (w \in Range(out[u])) <=> (u \in Range(out[w]))

\* main has returned on an undirected graph with two components, one of them
\* of two or more vertices.
C8_Witness ==
    /\ mpc = "done"
    /\ Undirected(graph)
    /\ \E u \in Vertices(graph) : \E w \in Vertices(graph) :
        /\ Range(out[u]) \cap Range(out[w]) = {}
        /\ Cardinality(Range(out[u])) >= 2

\* ---- C9 ----------------------------------------------------------------
\* C9: once construction has completed, every step (each is an is_visited
\* call) leaves the state list unchanged, and a call that repeats the
\* argument of the call before it returns the same outcome.
C9_QueryPure ==
    [][pc[1] = "done" =>
        /\ state' = state
        /\ (query.called /\ query'.arg = query.arg) =>
               (query'.raised = query.raised /\ query'.value = query.value)]_vars

\* A valid vertex has been queried on a constructed engine and was visited.
C9_Witness ==
    /\ Constructed(1)
    /\ query.called
    /\ query.arg \in Vertices(graph)
    /\ query.arg # source[1]
    /\ query.value

\* ---- C10 ---------------------------------------------------------------
\* C10 (isolation): with two engines on one graph and their steps interleaved
\* in any order, each engine ends with the state list it computes when run
\* alone; a step never changes the state list or the stack of the engine that
\* did not take it; the graph never changes.
C10_Isolation ==
    /\ [](\A e \in {1, 2} : pc[e] = "done" => state[e] = RunAlone(graph, source[e]))
    /\ [][/\ graph' = graph
          /\ \A e \in {1, 2} :
                (pc'[e] = pc[e] /\ todo'[e] = todo[e]) =>
                    (state'[e] = state[e] /\ S'[e] = S[e])]_vars

\* Both engines have finished, from different sources of which the second is
\* reachable from the first, each having visited two or more vertices.
C10_Witness ==
    /\ pc[1] = "done" /\ pc[2] = "done"
    /\ source[1] # source[2]
    /\ source[2] \in VisitedSet(1)
    /\ Cardinality(VisitedSet(2)) >= 2

\* ---- C11 ---------------------------------------------------------------
\* The vertex popped last was already VISITED when it was popped.
Redundant(e) ==
    /\ popped[e] # <<>>
    /\ \E i \in 1 .. (Len(popped[e]) - 1) : popped[e][i] = popped[e][Len(popped[e])]

\* C11 (monotonicity): during one construction no step takes a vertex from
\* VISITED to NEW; every entry stays NEW or VISITED, a step changes at most
\* one entry, and the mark of a vertex that is already VISITED leaves the
\* state list unchanged.
C11_Monotone ==
    [][pc[1] # "new" =>
        /\ \A w \in Vertices(graph) :
              /\ state[1][w] = VISITED => state'[1][w] = VISITED
              /\ state'[1][w] \in {NEW_, VISITED}
        /\ Cardinality({w \in Vertices(graph) : state'[1][w] # state[1][w]}) <= 1
        /\ (pc[1] = "mark" /\ Redundant(1)) => state'[1] = state[1]]_vars

\* A vertex has been popped a second time and its second mark has been made.
C11_Witness ==
    /\ ValidSource(1)
    /\ pc[1] \in {"while", "for"}
    /\ Redundant(1)
    /\ is_visited(state[1], v[1])

\* ---- C12 ---------------------------------------------------------------
\* C12 (mark on pop, not on push): a vertex is VISITED only if it has been
\* popped, and a popped vertex is VISITED, the one exception being the vertex
\* just returned by S.pop() whose mark is the next statement; a push never
\* changes the state list, so a vertex pushed but never popped is NEW.
C12_MarkOnPop ==
    /\ [](ValidSource(1) =>
            \A w \in Vertices(graph) :
                /\ state[1][w] = VISITED => w \in Range(popped[1])
                /\ w \in Range(popped[1]) =>
                      (state[1][w] = VISITED \/ (pc[1] = "mark" /\ v[1] = w))
                /\ (w \in Range(S[1]) /\ w \notin Range(popped[1])) => state[1][w] = NEW_)
    /\ [][(pc[1] # "new" /\ pushes'[1] > pushes[1]) => state'[1] = state[1]]_vars

\* At a loop head a vertex waits in the frontier, pushed by a neighbour that
\* has been popped and marked, while it is itself still NEW.
C12_Witness ==
    /\ ValidSource(1)
    /\ pc[1] = "while"
    /\ pops[1] >= 1
    /\ \E w \in Range(S[1]) : state[1][w] = NEW_ /\ w \notin Range(popped[1])

\* ---- C13 ---------------------------------------------------------------
\* C13: the engine never pops from an empty frontier: every S.pop() is
\* executed on a stack holding at least one vertex, and the constructor never
\* ends with the stack's empty-pop failure.
C13_NoEmptyPop ==
    /\ [](err[1] # "EmptyStack")
    /\ [][pops'[1] > pops[1] => ~is_empty(S[1])]_vars

\* The loop test is reached with an empty frontier after two or more pops.
C13_Witness ==
    /\ ValidSource(1)
    /\ pc[1] = "while"
    /\ is_empty(S[1])
    /\ pops[1] >= 2

\* ---- C14 ---------------------------------------------------------------
\* C14: every push is of a vertex that is NEW at the moment of the push: the
\* source is pushed while every vertex is NEW, and a neighbour is pushed only
\* when its own state is NEW; a VISITED vertex is never pushed.
C14_PushOnlyNew ==
    [][(pushes'[1] > pushes[1] /\ source'[1] \in Vertices(graph)) =>
        /\ ~is_empty(S'[1])
        /\ state'[1][top(S'[1])] = NEW_
        /\ IF pc[1] = "new"
           THEN \A w \in Vertices(graph) : state'[1][w] = NEW_
           ELSE /\ top(S'[1]) = Head(todo[1])
                /\ state[1][top(S'[1])] = NEW_]_vars

\* A finished traversal that pushed neighbours and also passed over an
\* adjacency entry whose target was already VISITED.
C14_Witness ==
    /\ Constructed(1)
    /\ pushes[1] >= 2
    /\ pushes[1] < 1 + EdgeCount(graph)
    /\ \A w \in Vertices(graph) : is_visited(state[1], w)

\* ---- C15 ---------------------------------------------------------------
\* The sequence holds some value at two positions.
HasDuplicate(l) == \E i \in DOMAIN l : \E j \in DOMAIN l : i < j /\ l[i] = l[j]

\* C15 (no deduplication): the frontier can hold a vertex twice: on the
\* triangle, from every source, some vertex is popped twice; whenever the
\* frontier holds a duplicate the traversal still ends with everything that
\* was pushed popped; and the mark after a repeated pop leaves the state list
\* unchanged.
C15_Duplicates ==
    /\ []((graph = Triangle /\ Constructed(1)) => HasDuplicate(popped[1]))
    /\ (ValidSource(1) /\ HasDuplicate(S[1])) ~>
           (pc[1] = "done" /\ is_empty(S[1]) /\ Len(popped[1]) = pushes[1])
    /\ [][(pc[1] = "mark" /\ Redundant(1)) => state' = state]_vars

\* The triangle's traversal at a point where its frontier holds a vertex twice.
C15_Witness ==
    /\ graph = Triangle
    /\ ValidSource(1)
    /\ HasDuplicate(S[1])

\* ---- C16 ---------------------------------------------------------------
\* The mark-on-push traversal: a vertex is marked VISITED when it is pushed,
\* so it is pushed at most once.  The result is [st |-> state list, stk |->
\* stack] after the neighbours in l have been handled.
RECURSIVE PushMarking(_, _, _)
PushMarking(l, st, stk) ==
    IF l = <<>> THEN [st |-> st, stk |-> stk]
    ELSE IF st[Head(l)] = NEW_
         THEN PushMarking(Tail(l), [st EXCEPT ![Head(l)] = VISITED], Append(stk, Head(l)))
         ELSE PushMarking(Tail(l), st, stk)

RECURSIVE MarkOnPushLoop(_, _, _)
MarkOnPushLoop(g, st, stk) ==
    IF stk = <<>> THEN st
    ELSE LET r == PushMarking(g.adj[stk[Len(stk)]], st, SubSeq(stk, 1, Len(stk) - 1))
         IN MarkOnPushLoop(g, r.st, r.stk)

\* The final state list of the mark-on-push traversal of g from s.
MarkOnPushRun(g, s) ==
    MarkOnPushLoop(g, [x \in Vertices(g) |-> IF x = s THEN VISITED ELSE NEW_], <<s>>)

\* C16: for every graph and valid source the engine ends with exactly the
\* state list the mark-on-push traversal ends with.
C16_SameAsMarkOnPush ==
    \A e \in Engines :
        Constructed(e) => state[e] = MarkOnPushRun(graph, source[e])

\* A finished traversal that popped some vertex twice, which mark-on-push
\* never does.
C16_Witness ==
    /\ Constructed(1)
    /\ HasDuplicate(popped[1])
    /\ state[1] = MarkOnPushRun(graph, source[1])

\* ---- C17 ---------------------------------------------------------------
\* C17: a redundant pop pushes nothing: when a vertex that was already
\* VISITED is popped again, every neighbour of it is VISITED, so the for loop
\* of that iteration makes no push; hence the pushes of a run number at most
\* one per adjacency entry, plus the push of the source.
C17_RedundantPopsPushNothing ==
    /\ []((ValidSource(1) /\ pc[1] \in {"mark", "for"} /\ Redundant(1)) =>
             \A w \in Range(graph.adj[v[1]]) : state[1][w] = VISITED)
    /\ []((ValidSource(1) /\ pc[1] = "mark") =>
             (Redundant(1) <=> state[1][v[1]] = VISITED))
    /\ [][(source[1] \in Vertices(graph) /\ pc[1] = "for" /\ Redundant(1)) =>
             (pushes'[1] = pushes[1] /\ S'[1] = S[1])]_vars
    /\ [](ValidSource(1) => pushes[1] <= 1 + EdgeCount(graph))

\* The for loop of a redundant pop is scanning the neighbours of its vertex.
C17_Witness ==
    /\ ValidSource(1)
    /\ pc[1] = "for"
    /\ Redundant(1)

\* ---- C18 ---------------------------------------------------------------
\* C18: at every loop head, every neighbour of a VISITED vertex is VISITED or
\* is in the frontier, and every vertex in the frontier is reachable from the
\* source.
C18_LoopHead ==
    \A e \in Engines :
        (ValidSource(e) /\ pc[e] \in {"while", "done"}) =>
            /\ \A x \in Vertices(graph) :
                  state[e][x] = VISITED =>
                      \A w \in Range(graph.adj[x]) :
                          state[e][w] = VISITED \/ w \in Range(S[e])
            /\ \A w \in Range(S[e]) : w \in Reach(graph, source[e])

\* A loop head after two pops where a VISITED vertex still has a NEW
\* neighbour, which waits in the frontier.
C18_Witness ==
    /\ ValidSource(1)
    /\ pc[1] = "while"
    /\ pops[1] >= 2
    /\ \E x \in Vertices(graph) : \E w \in Range(graph.adj[x]) :
          state[1][x] = VISITED /\ state[1][w] = NEW_ /\ w \in Range(S[1])

\* ---- C19 ---------------------------------------------------------------
\* The orderings of the list l.
Orderings(l) ==
    {[i \in DOMAIN l |-> l[p[i]]] :
        p \in {q \in [DOMAIN l -> DOMAIN l] : \A i \in DOMAIN l : \E j \in DOMAIN l : q[j] = i}}

\* Lists of n adjacency lists: for each of the first n vertices of g one
\* ordering of its neighbours.
RECURSIVE AdjOrderings(_, _)
AdjOrderings(g, n) ==
    IF n = 0 THEN {<<>>}
    ELSE {Append(a, o) : a \in AdjOrderings(g, n - 1), o \in Orderings(g.adj[n - 1])}

\* The graphs that are g with its neighbours enumerated in another order.
Reorderings(g) ==
    {[V |-> g.V, adj |-> [x \in Vertices(g) |-> a[x + 1]]] : a \in AdjOrderings(g, g.V)}

\* C19: the final visited set does not depend on the order in which the
\* graph enumerates neighbours: the engine's result on the graph equals the
\* result of _dfs on every reordering of it.
C19_OrderIndependent ==
    (Constructed(1) /\ ~query.called) =>
        \A g2 \in Reorderings(graph) : RunAlone(g2, source[1]) = state[1]

\* A finished traversal of a graph in which a visited vertex has two
\* different neighbours, so that another enumeration order exists.
C19_Witness ==
    /\ Constructed(1)
    /\ ~query.called
    /\ Cardinality(Reorderings(graph)) >= 2
    /\ \E x \in VisitedSet(1) : Cardinality(Range(graph.adj[x])) >= 2
====
